---- MODULE Spec2Model ----
(***************************************************************************)
(* A model of src/ul2/src/momo1/model.py: the attention-bias builder of    *)
(* MosaicModel (causal / ALiBi / padding / bidirectional masks), the       *)
(* target and logit-row selection of ComposerMosaicModel, and its cached   *)
(* forward-FLOPs estimate.                                                 *)
(*                                                                         *)
(* Tensors are records [shape |-> <<d1,..>>, at |-> function of the index  *)
(* tuple]; indices are 1-based (position p of the source is p+1 here).     *)
(* An attention-bias entry is [inf, v]: inf = TRUE is float("-inf"),       *)
(* otherwise the entry is the number v * 2^-alibi_bias_max.                *)
(***************************************************************************)
EXTENDS Integers, Sequences, FiniteSets, TLC

VARIABLES cfg, n_params, num_fwd_flops_cache, batch, ret

vars == <<cfg, n_params, num_fwd_flops_cache, batch, ret>>

\* ------------------------------------------------------------------ bounds
\* largest number of elements B*S of a batch
MaxElems == 4
\* n_heads is a power of two up to 2^MaxLogHeads
MaxLogHeads == 1
\* a max_seq_len beyond the integers bfloat16 represents exactly
LongSeqLen == 2048
\* token ids are 0..MaxTok
MaxTok == 1
\* largest n_layers, d_model and parameter count of the FLOPs scenarios
MaxLayers == 3
MaxDModel == 3
MaxParams == 4

\* ------------------------------------------------------- program constants
\* cfg.get("alibi_bias_max", 8)
alibi_bias_max == 8
\* significand bits of torch.bfloat16 (7 stored + 1 implicit)
BF16_BITS == 8
\* the ignore label
IGNORE == -100

\* Python's None
None == <<>>

\* ------------------------------------------------------------ arithmetic
Abs(x) == IF x < 0 THEN -x ELSE x

RECURSIVE Pow2(_)
Pow2(n) == IF n <= 0 THEN 1 ELSE 2 * Pow2(n - 1)

\* the spacing of bfloat16 numbers around the natural number a
RECURSIVE Ulp(_, _)
Ulp(a, u) == IF a < Pow2(BF16_BITS) * u THEN u ELSE Ulp(a, 2 * u)

\* an integer rounded to the nearest bfloat16 (ties to even)
Bf16(x) ==
    LET a == Abs(x)
        u == Ulp(a, 1)
        q == a \div u
        r == a % u
        up == (2 * r > u) \/ (2 * r = u /\ q % 2 = 1)
        n == (IF up THEN q + 1 ELSE q) * u
    IN  IF x < 0 THEN -n ELSE n

\* ---------------------------------------------------------------- tensors
NegInf == [inf |-> TRUE, v |-> 0]
Finite(x) == [inf |-> FALSE, v |-> x]

Idx4(shape) == (1..shape[1]) \X (1..shape[2]) \X (1..shape[3]) \X (1..shape[4])

Max(a, b) == IF a >= b THEN a ELSE b

\* broadcasting: the shape of the result, and the index a size-1 dimension reads
BroadcastShape(s, t) == [k \in 1..4 |-> Max(s[k], t[k])]
Expand(idx, shape) == [k \in 1..4 |-> IF shape[k] = 1 THEN 1 ELSE idx[k]]

\* t[:, :, :n, :n]
Slice(t, n) ==
    LET shape == <<t.shape[1], t.shape[2], n, n>>
    IN  [shape |-> shape, at |-> [idx \in Idx4(shape) |-> t.at[idx]]]

\* mask.bool().unsqueeze(1).unsqueeze(1) of a [B, S] mask
Unsqueeze11(m) ==
    LET shape == <<Len(m), 1, 1, Len(m[1])>>
    IN  [shape |-> shape, at |-> [idx \in Idx4(shape) |-> m[idx[1]][idx[4]] # 0]]

\* logical_or written as a conjunction
logical_or_conj(x, y) ==
    LET shape == BroadcastShape(x.shape, y.shape)
    IN  [shape |-> shape,
         at |-> [idx \in Idx4(shape) |->
                    x.at[Expand(idx, x.shape)] /\ y.at[Expand(idx, y.shape)]]]

logical_or(x, y) ==
    LET shape == BroadcastShape(x.shape, y.shape)
    IN  [shape |-> shape,
         at |-> [idx \in Idx4(shape) |->
                    x.at[Expand(idx, x.shape)] \/ y.at[Expand(idx, y.shape)]]]

logical_and(x, y) ==
    LET shape == BroadcastShape(x.shape, y.shape)
    IN  [shape |-> shape,
         at |-> [idx \in Idx4(shape) |->
                    x.at[Expand(idx, x.shape)] /\ y.at[Expand(idx, y.shape)]]]

\* torch.where(mask, bias, float("-inf"))
where(mask, bias) ==
    LET shape == BroadcastShape(mask.shape, bias.shape)
    IN  [shape |-> shape,
         at |-> [idx \in Idx4(shape) |->
                    IF mask.at[Expand(idx, mask.shape)]
                    THEN bias.at[Expand(idx, bias.shape)]
                    ELSE NegInf]]

\* torch.any in the place of torch.all
all_as_any(m) == \E b \in 1..Len(m) : \E s \in 1..Len(m[b]) : m[b][s] # 0

\* torch.all of a [B, S] mask converted to bool
all(m) == \A b \in 1..Len(m) : \A s \in 1..Len(m[b]) : m[b][s] # 0

\* ------------------------------------------------------------ alibi_bias
\* torch.arange(1 - seq_len, 1, dtype=bfloat16) at (1-based) position p
arange(seq_len, p) == Bf16(p - seq_len)

\* m = arange(1, n_heads + 1) * (alibi_bias_max / n_heads), for head h
slope_exp(n_heads, h) == Bf16(Bf16(h) * (alibi_bias_max \div n_heads))

\* alibi_bias(n_heads, seq_len, full=True, alibi_bias_max, dtype=bfloat16):
\* entry (1, h, i, j) is -|arange[j] - arange[i]| * 2^-m[h], held in units
\* of 2^-alibi_bias_max (a power-of-two scaling is exact in bfloat16)
alibi_bias(n_heads, seq_len) ==
    LET shape == <<1, n_heads, seq_len, seq_len>>
    IN  [shape |-> shape,
         at |-> [idx \in Idx4(shape) |->
                    Finite(-Abs(Bf16(arange(seq_len, idx[4]) - arange(seq_len, idx[3])))
                           * Pow2(alibi_bias_max - slope_exp(n_heads, idx[2])))]]

\* ------------------------------------------------- MosaicModel's buffers
alibi_mask(c) == alibi_bias(c.n_heads, c.max_seq_len)

zeros_mask(c) ==
    LET shape == alibi_mask(c).shape
    IN  [shape |-> shape, at |-> [idx \in Idx4(shape) |-> Finite(0)]]

\* torch.tril(..., diagonal=-1): the diagonal left out
causal_mask_strict(c) ==
    LET shape == <<1, 1, c.max_seq_len, c.max_seq_len>>
    IN  [shape |-> shape, at |-> [idx \in Idx4(shape) |-> idx[4] < idx[3]]]

\* torch.tril(torch.ones([max_seq_len] * 2)).unsqueeze(0).unsqueeze(0)
causal_mask(c) ==
    LET shape == <<1, 1, c.max_seq_len, c.max_seq_len>>
    IN  [shape |-> shape, at |-> [idx \in Idx4(shape) |-> idx[4] <= idx[3]]]

\* ------------------------------------------------------ build_attn_bias
build_attn_bias(c, batch_size, seq_length, attention_mask, bidirectional_mask) ==
    LET bias0 == IF c.alibi THEN Slice(alibi_mask(c), seq_length)
                 ELSE Slice(zeros_mask(c), seq_length)
        mask0 == IF bidirectional_mask = None
                 THEN Slice(causal_mask(c), seq_length)
                 ELSE logical_or(Slice(causal_mask(c), seq_length),
                                 Unsqueeze11(bidirectional_mask))
        mask1 == IF attention_mask # None /\ ~all(attention_mask)
                 THEN logical_and(mask0, Unsqueeze11(attention_mask))
                 ELSE mask0
    IN  where(mask1, bias0)

\* a tensor with its entries computed: what the call returns
Materialize(t) == [shape |-> t.shape, at |-> [idx \in Idx4(t.shape) |-> t.at[idx]]]

\* TorchAttention.forward: attn_mask.view((-1,) + attn_mask.shape[2:])
view_flat(shape) == <<shape[1] * shape[2], shape[3], shape[4]>>

\* ---------------------------------------------------------------- inputs
Shapes == {bs \in (1..MaxElems) \X (1..MaxElems) : bs[1] * bs[2] <= MaxElems}

Matrices(B, S, vals) == [1..B -> [1..S -> vals]]

\* head counts for which alibi_bias_max / n_heads is an integer, so that every
\* slope 2^-m is a power of two
NHeads == {h \in {Pow2(k) : k \in 0..MaxLogHeads} : alibi_bias_max % h = 0}

BatchSize(bt) == Len(bt.input_ids)
SeqLength(bt) == Len(bt.input_ids[1])

Zeros(B, S) == [b \in 1..B |-> [s \in 1..S |-> 0]]

\* batches of the mask scenarios: every padding and bidirectional mask
MaskBatches ==
    UNION {[input_ids : {Zeros(bs[1], bs[2])},
            labels : {None},
            attention_mask : {None} \cup Matrices(bs[1], bs[2], {0, 1}),
            bidirectional_mask : {None} \cup Matrices(bs[1], bs[2], {0, 1})]
           : bs \in Shapes}

InitBias ==
    /\ cfg \in [n_heads : NHeads, max_seq_len : {MaxElems, LongSeqLen},
                alibi : BOOLEAN, n_layers : {1}, d_model : {1}]
    /\ n_params = 1
    /\ num_fwd_flops_cache = None
    /\ batch \in MaskBatches
    /\ ret = [op |-> "none"]

\* MosaicModel.build_attn_bias(B, S, attention_mask, bidirectional_mask)
BuildAttnBias ==
    /\ ret.op = "none"
    /\ SeqLength(batch) <= cfg.max_seq_len
    /\ ret' = [op |-> "build_attn_bias",
               attn_bias |-> Materialize(build_attn_bias(cfg, BatchSize(batch),
                                 SeqLength(batch), batch.attention_mask,
                                 batch.bidirectional_mask))]
    /\ UNCHANGED <<cfg, n_params, num_fwd_flops_cache, batch>>

\* TorchAttention.forward: the bias flattened for nn.MultiheadAttention
TorchAttentionForward ==
    /\ ret.op = "build_attn_bias"
    /\ ret' = [op |-> "attn", attn_bias |-> ret.attn_bias,
               attn_mask_shape |-> view_flat(ret.attn_bias.shape)]
    /\ UNCHANGED <<cfg, n_params, num_fwd_flops_cache, batch>>

NextBias == BuildAttnBias \/ TorchAttentionForward

SpecBias == InitBias /\ [][NextBias]_vars

\* ------------------------------------------------- targets and logit rows
\* x.view(-1) of a [B, S] tensor (row-major)
RECURSIVE view_flat1(_)
view_flat1(m) == IF m = <<>> THEN <<>> ELSE Head(m) \o view_flat1(Tail(m))

\* flat.view(B, S)
unflatten(flat, B, S) == [b \in 1..B |-> [s \in 1..S |-> flat[(b - 1) * S + s]]]

\* torch.roll(x, shifts) without dims: x is flattened, rolled and reshaped
roll(x, shifts) ==
    LET B == Len(x)
        S == Len(x[1])
        n == B * S
        flat == view_flat1(x)
        rolled == [k \in 1..n |-> flat[((k - 1 - shifts) % n) + 1]]
    IN  unflatten(rolled, B, S)

\* targets[:, 0] = value: the wrong column
set_first_column(t, value) ==
    [b \in 1..Len(t) |-> [s \in 1..Len(t[b]) |-> IF s = 1 THEN value ELSE t[b][s]]]

\* targets[:, -1] = value
set_last_column(t, value) ==
    [b \in 1..Len(t) |-> [s \in 1..Len(t[b]) |-> IF s = Len(t[b]) THEN value ELSE t[b][s]]]

\* torch.not_equal(x, value) of a flat tensor
not_equal(flat, value) == [k \in 1..Len(flat) |-> flat[k] # value]

\* x[mask] of a flat tensor: the entries where mask holds, in order
RECURSIVE masked_select(_, _)
masked_select(flat, mask) ==
    IF flat = <<>> THEN <<>>
    ELSE (IF Head(mask) THEN <<Head(flat)>> ELSE <<>>)
         \o masked_select(Tail(flat), Tail(mask))

\* get_targets without the filter on the ignore label
get_targets_unfiltered(bt) ==
    IF bt.labels # None
    THEN LET targets == view_flat1(bt.labels)
         IN  [shape |-> <<Len(targets)>>, data |-> targets]
    ELSE LET targets == set_last_column(roll(bt.input_ids, -1), IGNORE)
         IN  [shape |-> <<Len(targets), Len(targets[1])>>, data |-> targets]

\* ComposerMosaicModel.get_targets: [shape, data]; data is flat when the batch
\* has labels and a [B, S] tensor otherwise
get_targets(bt) ==
    IF bt.labels # None
    THEN LET targets == view_flat1(bt.labels)
             kept == masked_select(targets, not_equal(targets, IGNORE))
         IN  [shape |-> <<Len(kept)>>, data |-> kept]
    ELSE LET targets == set_last_column(roll(bt.input_ids, -1), IGNORE)
         IN  [shape |-> <<Len(targets), Len(targets[1])>>, data |-> targets]

\* MosaicModel.forward: the logits are a row-wise image of the hidden states,
\* so they are held as the flat positions (b-1)*S + s their rows come from
MosaicModel_forward(c, input_ids, attention_mask, bidirectional_mask, loss_generating_tokens) ==
    LET B == Len(input_ids)
        S == Len(input_ids[1])
        positions == [k \in 1..(B * S) |-> k]
        attn_bias == build_attn_bias(c, B, S, attention_mask, bidirectional_mask)
        rows == IF loss_generating_tokens # None
                THEN masked_select(positions, view_flat1(loss_generating_tokens))
                ELSE positions
    IN  [logits |-> [shape |-> IF loss_generating_tokens # None
                               THEN <<Len(rows)>> ELSE <<B, S>>,
                     rows |-> rows],
         attn_bias |-> attn_bias]

\* ComposerMosaicModel.forward
forward(c, bt) ==
    LET loss_generating_tokens ==
            IF bt.labels # None
            THEN [b \in 1..Len(bt.labels) |-> not_equal(bt.labels[b], IGNORE)]
            ELSE None
    IN  MosaicModel_forward(c, bt.input_ids, bt.attention_mask,
                            bt.bidirectional_mask, loss_generating_tokens).logits

Tokens == 0..MaxTok

\* batches of the loss scenarios: every input_ids without labels, and every
\* labels tensor (over the tokens and the ignore label)
TokenBatches ==
    UNION {[input_ids : Matrices(bs[1], bs[2], Tokens),
            labels : {None},
            attention_mask : {None},
            bidirectional_mask : {None}] : bs \in Shapes}

LabelBatches ==
    UNION {[input_ids : {Zeros(bs[1], bs[2])},
            labels : Matrices(bs[1], bs[2], Tokens \cup {IGNORE}),
            attention_mask : {None},
            bidirectional_mask : {None}] : bs \in Shapes}

InitLoss ==
    /\ cfg \in [n_heads : {1}, max_seq_len : {MaxElems}, alibi : BOOLEAN,
                n_layers : {1}, d_model : {1}]
    /\ n_params = 1
    /\ num_fwd_flops_cache = None
    /\ batch \in TokenBatches \cup LabelBatches
    /\ ret = [op |-> "none"]

\* outputs = model.forward(batch)
Forward ==
    /\ ret.op = "none"
    /\ SeqLength(batch) <= cfg.max_seq_len
    /\ ret' = [op |-> "forward", outputs |-> forward(cfg, batch)]
    /\ UNCHANGED <<cfg, n_params, num_fwd_flops_cache, batch>>

\* model.loss(outputs, batch): get_targets, then the shape assertion
Loss ==
    /\ ret.op = "forward"
    /\ LET targets == get_targets(batch)
       IN  ret' = [op |-> "loss", outputs |-> ret.outputs, targets |-> targets,
                   assert_ok |-> (ret.outputs.shape[1] = targets.shape[1])]
    /\ UNCHANGED <<cfg, n_params, num_fwd_flops_cache, batch>>

\* model.get_targets(batch); torch.roll returns a new tensor, so the in-place
\* write to the targets leaves the batch as it was
GetTargets ==
    /\ ret.op = "none"
    /\ ret' = [op |-> "get_targets", targets |-> get_targets(batch)]
    /\ UNCHANGED <<cfg, n_params, num_fwd_flops_cache, batch>>

NextLoss == Forward \/ Loss \/ GetTargets

SpecLoss == InitLoss /\ [][NextLoss]_vars

\* ---------------------------------------------------------- num_fwd_flops
\* Python truthiness of self.__num_fwd_flops
Truthy(cache) == cache # None /\ cache[1] # 0

params_flops_per_seq(c, P) == (2 * P) * c.max_seq_len

\* the attention term linear in max_seq_len
attn_flops_linear(c) ==
    c.n_layers * 2 * 2 * (c.d_model * c.max_seq_len)

attn_flops_per_seq(c) ==
    c.n_layers * 2 * 2 * (c.d_model * (c.max_seq_len * c.max_seq_len))

\* the property: [value returned, cache afterwards, whether the cache answered]
num_fwd_flops(c, P, cache) ==
    IF Truthy(cache)
    THEN [value |-> cache[1], cache |-> cache, cached |-> TRUE]
    ELSE LET total == params_flops_per_seq(c, P) + attn_flops_per_seq(c)
         IN  [value |-> total, cache |-> <<total>>, cached |-> FALSE]

InitFlops ==
    /\ cfg \in [n_heads : {1}, max_seq_len : 1..MaxElems, alibi : {FALSE},
                n_layers : 1..MaxLayers, d_model : 1..MaxDModel]
    /\ n_params \in 1..MaxParams
    /\ num_fwd_flops_cache = None
    /\ batch = [input_ids |-> Zeros(1, 1), labels |-> None,
                attention_mask |-> None, bidirectional_mask |-> None]
    /\ ret = [op |-> "none"]

\* a read of model.num_fwd_flops
NumFwdFlops ==
    LET r == num_fwd_flops(cfg, n_params, num_fwd_flops_cache)
    IN  /\ num_fwd_flops_cache' = r.cache
        /\ ret' = [op |-> "num_fwd_flops", value |-> r.value, cached |-> r.cached]
        /\ UNCHANGED <<cfg, n_params, batch>>

NextFlops == NumFwdFlops

SpecFlops == InitFlops /\ [][NextFlops]_vars

\* ================================================================ claims
B_ == BatchSize(batch)
S_ == SeqLength(batch)
Heads == 1..cfg.n_heads
Rows == 1..B_
Pos == 1..S_

Built == ret.op \in {"build_attn_bias", "attn"}

\* the returned bias at (b, h, i, j); a leading dimension of 1 is read for every b
At(b, h, i, j) ==
    ret.attn_bias.at[<<IF ret.attn_bias.shape[1] = 1 THEN 1 ELSE b, h, i, j>>]

Marked(b, p) == batch.bidirectional_mask # None /\ batch.bidirectional_mask[b][p] # 0
Padded(b, p) == batch.attention_mask # None /\ batch.attention_mask[b][p] = 0
NoPadding == \A b \in Rows : \A p \in Pos : ~Padded(b, p)

\* C1: without a bidirectional and a padding mask the bias at (h, i, j) is
\* -inf exactly when j > i: a position attends to itself and earlier ones only.
C1_CausalOnly ==
    (Built /\ batch.attention_mask = None /\ batch.bidirectional_mask = None)
    => \A h \in Heads : \A i \in Pos : \A j \in Pos : At(1, h, i, j).inf <=> (j > i)

C1_Witness ==
    /\ Built /\ batch.attention_mask = None /\ batch.bidirectional_mask = None
    /\ S_ >= 3
    /\ At(1, 1, 1, 3).inf /\ ~At(1, 1, 3, 1).inf /\ ~At(1, 1, 2, 2).inf

\* C2: with a bidirectional mask and no padding, two marked positions of a
\* row see each other in both orders, for every head.
C2_MarkedMutuallyVisible ==
    (Built /\ batch.bidirectional_mask # None /\ NoPadding)
    => \A b \in Rows : \A i \in Pos : \A j \in Pos :
          (Marked(b, i) /\ Marked(b, j))
          => \A h \in Heads : ~At(b, h, i, j).inf /\ ~At(b, h, j, i).inf

C2_Witness ==
    /\ Built /\ batch.bidirectional_mask # None /\ NoPadding
    /\ \E b \in Rows : \E i \in Pos : \E j \in Pos :
          /\ i < j /\ Marked(b, i) /\ Marked(b, j)
          /\ ~At(b, 1, i, j).inf
          /\ \E k \in Pos : ~Marked(b, k)

\* C3: with a bidirectional mask, a query position that is not marked keeps
\* pure causality: every later key position is -inf, marked or not.
C3_UnmarkedQueryCausal ==
    (Built /\ batch.bidirectional_mask # None)
    => \A b \in Rows : \A i \in Pos : \A j \in Pos :
          (~Marked(b, i) /\ j > i) => \A h \in Heads : At(b, h, i, j).inf

\* C4: a padding key position is -inf for every head and every query
\* position, the diagonal and bidirectionally marked keys included.
C4_PaddingWins ==
    (Built /\ batch.attention_mask # None)
    => \A b \in Rows : \A j \in Pos :
          Padded(b, j) => \A h \in Heads : \A i \in Pos : At(b, h, i, j).inf

C4_Witness ==
    /\ Built
    /\ \E b \in Rows : \E j \in Pos :
          /\ Padded(b, j) /\ Marked(b, j) /\ At(b, 1, j, j).inf
          /\ \E c \in Rows : c # b /\ \A p \in Pos : ~Padded(c, p)

\* C6: an allowed pair holds the decay -|i-j| * 2^-(h*alibi_bias_max/n_heads)
\* (0 without alibi), a disallowed pair -inf; the sliced template equals
\* alibi_bias(n_heads, seq_length), is 0 on the diagonal, symmetric and
\* strictly decreasing in |i-j|.
Allowed(b, i, j) == (j <= i \/ Marked(b, j)) /\ ~Padded(b, j)

Decay(h, i, j) ==
    -Abs(i - j) * Pow2(alibi_bias_max - (h * alibi_bias_max) \div cfg.n_heads)

Template(h, i, j) == Slice(alibi_mask(cfg), S_).at[<<1, h, i, j>>].v

C6_BiasValues ==
    Built =>
      /\ \A b \in Rows : \A h \in Heads : \A i \in Pos : \A j \in Pos :
            At(b, h, i, j) = IF Allowed(b, i, j)
                             THEN Finite(IF cfg.alibi THEN Decay(h, i, j) ELSE 0)
                             ELSE NegInf
      /\ cfg.alibi => \A h \in Heads : \A i \in Pos : \A j \in Pos :
            /\ Template(h, i, j) = alibi_bias(cfg.n_heads, S_).at[<<1, h, i, j>>].v
            /\ Template(h, i, i) = 0
            /\ Template(h, i, j) = Template(h, j, i)
            /\ \A k \in Pos : Abs(i - j) < Abs(i - k)
                              => Template(h, i, j) > Template(h, i, k)

\* C9: the returned bias has shape [batch_size, n_heads, seq_length,
\* seq_length], so the flattened mask of TorchAttention.forward has the
\* leading dimension batch_size * n_heads.
C9_BiasShape ==
    (ret.op = "attn")
    => /\ ret.attn_bias.shape = <<B_, cfg.n_heads, S_, S_>>
       /\ ret.attn_mask_shape[1] = B_ * cfg.n_heads

\* C10: when every row of the padding mask keeps a non-padding position, no
\* query position of any row and head has all its keys at -inf.
C10_NoFullyMaskedRow ==
    (Built /\ \A b \in Rows : \E p \in Pos : ~Padded(b, p))
    => \A b \in Rows : \A h \in Heads : \A i \in Pos :
          \E j \in Pos : ~At(b, h, i, j).inf

\* C5: without labels the targets are the inputs shifted left by one inside
\* each row, the last column is the ignore label, nothing comes from another
\* row, and the call leaves the batch as it was.
C5_TargetsOfRow ==
    (ret.op \in {"get_targets", "loss"} /\ batch.labels = None)
    => /\ ret.targets.shape = <<B_, S_>>
       /\ \A b \in Rows : \A s \in Pos :
             ret.targets.data[b][s] =
                IF s < S_ THEN batch.input_ids[b][s + 1] ELSE IGNORE

C5_ShiftedTargets ==
    /\ []C5_TargetsOfRow
    /\ [][ret'.op = "get_targets" => batch'.input_ids = batch.input_ids]_vars

C5_Witness ==
    /\ ret.op = "get_targets" /\ batch.labels = None
    /\ B_ >= 2 /\ S_ >= 2
    /\ batch.input_ids[2][1] # batch.input_ids[1][2]
    /\ ret.targets.data[1][1] = batch.input_ids[1][2]
    /\ ret.targets.data[1][S_] = IGNORE

\* C8: with labels, the assertion of loss holds: as many logit rows as
\* targets, both the count of labels other than the ignore label; the k-th of
\* each is the same row-major position, and no target is the ignore label.
FlatLabel(k) == batch.labels[((k - 1) \div S_) + 1][((k - 1) % S_) + 1]

C8_LossAssertion ==
    (ret.op = "loss" /\ batch.labels # None)
    => LET rows == ret.outputs.rows
           data == ret.targets.data
           n == Cardinality({k \in 1..(B_ * S_) : FlatLabel(k) # IGNORE})
       IN  /\ ret.assert_ok
           /\ ret.outputs.shape[1] = n /\ ret.targets.shape[1] = n
           /\ Len(rows) = n /\ Len(data) = n
           /\ \A k \in 1..n : data[k] = FlatLabel(rows[k]) /\ data[k] # IGNORE
           /\ \A k \in 1..n : \A l \in 1..n : k < l => rows[k] < rows[l]

C8_Witness ==
    /\ ret.op = "loss" /\ batch.labels # None /\ ret.assert_ok
    /\ B_ >= 2 /\ S_ >= 2
    /\ batch.labels[1][1] = IGNORE /\ batch.labels[1][2] # IGNORE
    /\ batch.labels[2][1] = IGNORE /\ batch.labels[2][2] # IGNORE
    /\ Len(ret.targets.data) = 2

\* C7: num_fwd_flops is 2*P*L + 4*n_layers*d_model*L^2; the first read
\* computes and caches it, every later read returns the cached value.
C7_FlopsValue ==
    (ret.op = "num_fwd_flops")
    => /\ ret.value = 2 * n_params * cfg.max_seq_len
                      + 4 * cfg.n_layers * cfg.d_model * cfg.max_seq_len * cfg.max_seq_len
       /\ num_fwd_flops_cache = <<ret.value>>

C7_FlopsCached ==
    /\ []C7_FlopsValue
    /\ [][/\ num_fwd_flops_cache = None => ~ret'.cached
          /\ num_fwd_flops_cache # None
             => /\ ret'.cached
                /\ ret'.value = num_fwd_flops_cache[1]
                /\ num_fwd_flops_cache' = num_fwd_flops_cache]_vars

C7_Witness ==
    /\ ret.op = "num_fwd_flops" /\ ret.cached
    /\ cfg.max_seq_len >= 2 /\ cfg.n_layers >= 2 /\ cfg.d_model >= 2 /\ n_params >= 2

====
